---------------------------- MODULE Spec2Model ----------------------------
(***************************************************************************)
(* A model of cyclesys/cycle's render layer: the Window / Object / Text    *)
(* handles over a Direct2D / DirectWrite backend, the begin/end draw       *)
(* protocol, compositing, and the packed-colour conversion.                *)
(*                                                                         *)
(* The backend (Direct2D, DirectWrite, the C++ heap) is outside the        *)
(* repository.  It is modelled by what the code can observe of it:         *)
(* HRESULTs, COM reference counts, out-parameters, and a small pixel grid. *)
(***************************************************************************)
EXTENDS Integers, Sequences, FiniteSets, TLC

VARIABLES
    wnd,         \* the caller's Window*: NULL or the address of a heap block
    obj,         \* the caller's Object*: NULL or the address of a heap block
    text,        \* the caller's RenderText*: NULL or the address of a heap block
    refs,        \* COM reference count of each backend resource of the current handles
    orphans,     \* references still held on a bitmap whose render target is gone
    heap,        \* the live C++ heap blocks (new / new[] not yet deleted) and their fields
    wndSession,  \* the window render target is between BeginDraw and EndDraw
    objSession,  \* the object render target is between BeginDraw and EndDraw
    wndPixels,   \* content of the window surface
    objPixels,   \* content of the object's bitmap
    e2e,         \* how far the calls so far follow the end-to-end scenario
    layoutBox,   \* the text layout's [w, h] maximum box
    call,        \* the last API call: [op, arg, ret]
    log,         \* the backend / heap events of the last API call, in order
    color,       \* colour conversion: the packed input
    conv         \* colour conversion: "idle" or the two implementations' results

vars == << wnd, obj, text, refs, orphans, heap, wndSession, objSession,
           wndPixels, objPixels, e2e, layoutBox, call, log, color, conv >>

surfaceVars == << wnd, obj, text, refs, orphans, heap, wndSession, objSession,
                  wndPixels, objPixels, e2e, layoutBox, call, log >>

colorVars == << color, conv >>

NULL == "NULL"

---------------------------------------------------------------------------
(* 32-bit unsigned words.  A word is its 32 bits, bit 0 the least          *)
(* significant: TLC's integers are 32-bit signed and cannot hold a u32.    *)

Bits == 0 .. 31

Pow2(n) == 2 ^ n

\* the u32 whose bytes, most significant first, are b3 b2 b1 b0
U32(b3, b2, b1, b0) ==
    [i \in Bits |->
        CASE i < 8  -> (b0 \div Pow2(i)) % 2
          [] i < 16 -> (b1 \div Pow2(i - 8)) % 2
          [] i < 24 -> (b2 \div Pow2(i - 16)) % 2
          [] OTHER  -> (b3 \div Pow2(i - 24)) % 2]

\* an int literal below 2^31 converted to u32
Lit(n) == [i \in Bits |-> IF i < 31 THEN (n \div Pow2(i)) % 2 ELSE 0]

\* a << n on 32 bits: bits shifted past bit 31 are lost
Shl(a, n) == [i \in Bits |-> IF i >= n THEN a[i - n] ELSE 0]

\* a >> n on an unsigned 32-bit value: zeros come in from the top
Shr(a, n) == [i \in Bits |-> IF i + n <= 31 THEN a[i + n] ELSE 0]

\* a & b
BitAnd(a, b) == [i \in Bits |-> a[i] * b[i]]

RECURSIVE SumBits(_, _)
SumBits(a, i) == IF i < 0 THEN 0 ELSE a[i] * Pow2(i) + SumBits(a, i - 1)

\* static_cast<FLOAT>(a) for a value below 2^31 (every channel is below 2^8)
ToFloat(a) == SumBits(a, 30)

---------------------------------------------------------------------------
(* colorToD2D.  A D2D1_COLOR_F channel x / 255.f is kept as its numerator  *)
(* x: the record [r, g, b, a] stands for (r/255, g/255, b/255, a/255).     *)

r_shift == 24
g_shift == 16
b_shift == 8
a_shift == 0

\* a plausible slip: the red and blue shifts exchanged (an ABGR reading)
colorToD2D_swapped(c) ==
    [r |-> ToFloat(Shr(BitAnd(c, Shl(Lit(255), b_shift)), b_shift)),
     g |-> ToFloat(Shr(BitAnd(c, Shl(Lit(255), g_shift)), g_shift)),
     b |-> ToFloat(Shr(BitAnd(c, Shl(Lit(255), r_shift)), r_shift)),
     a |-> ToFloat(Shr(BitAnd(c, Shl(Lit(255), a_shift)), a_shift))]

\* render/internal.cc: the masks are static constants 0xFF << shift
colorToD2D(c) ==
    LET r_mask == Shl(Lit(255), r_shift)
        g_mask == Shl(Lit(255), g_shift)
        b_mask == Shl(Lit(255), b_shift)
        a_mask == Shl(Lit(255), a_shift)
    IN  [r |-> ToFloat(Shr(BitAnd(c, r_mask), r_shift)),
         g |-> ToFloat(Shr(BitAnd(c, g_mask), g_shift)),
         b |-> ToFloat(Shr(BitAnd(c, b_mask), b_shift)),
         a |-> ToFloat(Shr(BitAnd(c, a_mask), a_shift))]

\* render/render.cc: the macros, expanded with C's precedence.
COLOR_CHAN_BITS == 255
COLOR_CHAN_R_SHIFT == 24
COLOR_CHAN_G_SHIFT == 16
COLOR_CHAN_B_SHIFT == 8
COLOR_CHAN_R_MASK == Shl(Lit(COLOR_CHAN_BITS), COLOR_CHAN_R_SHIFT)
COLOR_CHAN_G_MASK == Shl(Lit(COLOR_CHAN_BITS), COLOR_CHAN_G_SHIFT)
COLOR_CHAN_B_MASK == Shl(Lit(COLOR_CHAN_BITS), COLOR_CHAN_B_SHIFT)
COLOR_CHAN_A_MASK == Lit(COLOR_CHAN_BITS)

\* COLOR_CHAN_R(c) is (c & 0xFF << 24) >> 24: << binds tighter than &, so
\* the unparenthesised mask is applied whole, and the shift follows
COLOR_CHAN_R(c) == Shr(BitAnd(c, COLOR_CHAN_R_MASK), COLOR_CHAN_R_SHIFT)
COLOR_CHAN_G(c) == Shr(BitAnd(c, COLOR_CHAN_G_MASK), COLOR_CHAN_G_SHIFT)
COLOR_CHAN_B(c) == Shr(BitAnd(c, COLOR_CHAN_B_MASK), COLOR_CHAN_B_SHIFT)
COLOR_CHAN_A(c) == BitAnd(c, COLOR_CHAN_A_MASK)

colorToD2DMacro(c) ==
    [r |-> ToFloat(COLOR_CHAN_R(c)),
     g |-> ToFloat(COLOR_CHAN_G(c)),
     b |-> ToFloat(COLOR_CHAN_B(c)),
     a |-> ToFloat(COLOR_CHAN_A(c))]

---------------------------------------------------------------------------
(* Geometry conversions (render/internal.cc).  Coordinates are whole       *)
(* pixels; pixel <<x, y>> is the unit square at (x, y).                    *)

GridSize == 4

Coords == 0 .. (GridSize - 1)
Pixels == Coords \X Coords

offsetToD2D(offset) == [x |-> offset.dx, y |-> offset.dy]

sizeToD2D(size) == [width |-> size.width, height |-> size.height]

rectToD2D(r) ==
    [left   |-> r.offset.dx,
     top    |-> r.offset.dy,
     right  |-> r.offset.dx + r.size.width,
     bottom |-> r.offset.dy + r.size.height]

rrectToD2D(rr) ==
    [rect |-> rectToD2D(rr.rect), radiusX |-> rr.rx, radiusY |-> rr.ry]

\* declared in ui/render/internal.h; its definition is not among the sources
ovalToD2D(o) ==
    [point |-> [x |-> o.offset.dx, y |-> o.offset.dy],
     radiusX |-> o.rx, radiusY |-> o.ry]

---------------------------------------------------------------------------
(* The inputs the operations are exercised with.                           *)

\* a Color argument is written as its four bytes, most significant first
RED   == <<255, 0, 0, 255>>          \* 0xFF0000FF
WHITE == <<255, 255, 255, 255>>      \* 0xFFFFFFFF, beginFrame's clear colour
BLACK == <<0, 0, 0, 255>>            \* 0xFF, drawText's fill colour

Word(c) == U32(c[1], c[2], c[3], c[4])

Colors == {RED}

FullRect ==
    [offset |-> [dx |-> 0, dy |-> 0],
     size   |-> [width |-> GridSize, height |-> GridSize]]

ShiftedRect ==
    [offset |-> [dx |-> 1, dy |-> 0],
     size   |-> [width |-> GridSize, height |-> GridSize]]

Rects     == {FullRect}
RRects    == {[rect |-> FullRect, rx |-> 1, ry |-> 1]}
Ovals     == {[offset |-> [dx |-> 2, dy |-> 2], rx |-> 2, ry |-> 2]}
Offsets   == {[dx |-> 1, dy |-> 1]}
DestRects == {FullRect, ShiftedRect}
ObjSizes  == {[width |-> GridSize, height |-> GridSize]}
BoxSizes  == {[width |-> 2, height |-> 1], [width |-> 3, height |-> 2],
              [width |-> 4, height |-> 3]}

\* UTF-8 inputs: "", "Hi", the 3-byte euro sign, a 4-byte emoji
Strings == {<< >>, <<72, 105>>, <<226, 130, 172>>, <<240, 159, 152, 128>>}

HRESULTS == {"S_OK", "E_FAIL"}

---------------------------------------------------------------------------
(* The Direct2D surface, as far as the claims look at it: a grid of        *)
(* D2D1_COLOR_F values.  Brush colours are opaque or fully transparent, so *)
(* source-over blending is exact.                                          *)

Transparent == [r |-> 0, g |-> 0, b |-> 0, a |-> 0]

Blank == [p \in Pixels |-> Transparent]

SrcOver(dst, src) == IF src.a = 0 THEN dst ELSE src

InBox(p, box) ==
    /\ box.left <= p[1] /\ p[1] < box.right
    /\ box.top <= p[2] /\ p[2] < box.bottom

\* the pixels a one-pixel stroke along the box's edges touches
OnEdge(p, box) ==
    /\ InBox(p, box)
    /\ \/ p[1] = box.left \/ p[1] = box.right - 1
       \/ p[2] = box.top \/ p[2] = box.bottom - 1

IsCorner(p, box) ==
    /\ p[1] \in {box.left, box.right - 1}
    /\ p[2] \in {box.top, box.bottom - 1}

Paint(px, S, c) == [p \in Pixels |-> IF p \in S THEN SrcOver(px[p], c) ELSE px[p]]

\* ID2D1RenderTarget::Clear
Clear(px, c) == [p \in Pixels |-> c]

\* ID2D1RenderTarget::DrawRectangle strokes the outline; only a brush that
\* was created paints
DrawRectangle(px, rect, brush) ==
    IF brush.ptr = "brush"
    THEN Paint(px, {p \in Pixels : OnEdge(p, rect)}, brush.color)
    ELSE px

\* ID2D1RenderTarget::DrawRoundedRectangle strokes the outline, the corner
\* pixels cut by the rounding
DrawRoundedRectangle(px, rrect, brush) ==
    IF brush.ptr = "brush"
    THEN Paint(px, {p \in Pixels : /\ OnEdge(p, rrect.rect)
                                   /\ ~ (/\ IsCorner(p, rrect.rect)
                                         /\ rrect.radiusX > 0
                                         /\ rrect.radiusY > 0)},
               brush.color)
    ELSE px

EllipseBox(e) ==
    [left   |-> e.point.x - e.radiusX, top    |-> e.point.y - e.radiusY,
     right  |-> e.point.x + e.radiusX, bottom |-> e.point.y + e.radiusY]

\* ID2D1RenderTarget::DrawEllipse strokes the outline
DrawEllipse(px, e, brush) ==
    IF brush.ptr = "brush"
    THEN Paint(px, {p \in Pixels : /\ OnEdge(p, EllipseBox(e))
                                   /\ ~ IsCorner(p, EllipseBox(e))},
               brush.color)
    ELSE px

\* ID2D1RenderTarget::DrawTextLayout: the ink of a non-empty layout starts
\* at the origin
DrawTextLayout(px, origin, chars_len, brush) ==
    IF brush.ptr = "brush" /\ chars_len > 0
    THEN Paint(px, {p \in Pixels : p = <<origin.x, origin.y>>}, brush.color)
    ELSE px

\* ID2D1RenderTarget::DrawBitmap at opacity 1.0 into a destination of the
\* bitmap's own size: content is copied 1:1, clipped to the target
DrawBitmap(dst, src, dest) ==
    [p \in Pixels |->
        IF InBox(p, dest) /\ <<p[1] - dest.left, p[2] - dest.top>> \in Pixels
        THEN SrcOver(dst[p], src[<<p[1] - dest.left, p[2] - dest.top>>])
        ELSE dst[p]]

---------------------------------------------------------------------------
(* The machine an API call runs on: COM reference counts, the C++ heap and *)
(* the call's event log.  Each call starts from M with an empty log.       *)

MaxRefs == 3

Resources == {"hwndRT", "bitmapRT", "bitmap", "brush", "format", "layout"}

NoRefs == [p \in Resources |-> 0]

M == [refs |-> refs, orphans |-> orphans, heap |-> heap, log |-> << >>]

Ev(m, e) == [m EXCEPT !.log = Append(@, e)]

\* new T(): value-initialised, every pointer field NULL
New(m, b, fields) ==
    [m EXCEPT !.heap = (b :> fields) @@ m.heap,
              !.log = Append(@, <<"new", b>>)]

Delete(m, b) ==
    [m EXCEPT !.heap = [x \in (DOMAIN m.heap) \ {b} |-> m.heap[x]],
              !.log = Append(@, <<"delete", b>>)]

\* a successful backend Create*: the out-parameter holds one reference
Created(m, p) == [m EXCEPT !.refs[p] = @ + 1]

\* IUnknown::Release through pointer p.  A bitmap render target that goes
\* away drops its own reference on its bitmap; references others still hold
\* on that bitmap keep it alive.  Through a pointer that is no resource the
\* call is undefined; the log records that it was made.
ComRelease(m, p) ==
    IF p \notin Resources
    THEN Ev(m, <<"Release", p>>)
    ELSE LET m1 == [m EXCEPT !.refs[p] = @ - 1,
                             !.log = Append(@, <<"Release", p>>)]
         IN  IF p = "bitmapRT" /\ m1.refs[p] = 0
             THEN [m1 EXCEPT !.orphans = @ + (m1.refs["bitmap"] - 1),
                             !.refs["bitmap"] = 0]
             ELSE m1

\* a plausible slip: the macro without its null test
RELEASE_unguarded(m, p) == ComRelease(m, p)

\* #define RELEASE(pp) if (pp) { pp->Release(); pp = NULL; }
RELEASE(m, p) == IF p # NULL THEN ComRelease(m, p) ELSE m

Count(s, e) == Cardinality({i \in DOMAIN s : s[i] = e})

Index(s, e) == IF Count(s, e) = 0 THEN 0 ELSE CHOOSE i \in DOMAIN s : s[i] = e

\* the effect of a call on the counts, the heap and the log
Machine(m) ==
    /\ refs' = m.refs
    /\ orphans' = m.orphans
    /\ heap' = m.heap
    /\ log' = m.log

\* colorToD2D of the colours the operations are exercised with
D2DColor == [c \in Colors \cup {WHITE, BLACK} |-> colorToD2D(Word(c))]

\* The end-to-end scenario of the specification, followed call by call:
\* beginDraw (1), drawRect of the full bounds with a brush that was created
\* (2), endDraw returning true (3), beginFrame (4), drawObject into a
\* destination (5), endFrame returning true (6).  Any other call starts over.
NoScenario == [stage |-> 0, color |-> WHITE, dest |-> FullRect]

Follows(from, to) ==
    IF e2e.stage = from THEN [e2e EXCEPT !.stage = to] ELSE NoScenario

---------------------------------------------------------------------------
(* Window (ui/render/window.cc)                                            *)

\* a plausible slip: the record is not freed
destroyWindow_leak(m, w) == RELEASE(m, m.heap[w].target)

destroyWindow(m, w) == Delete(RELEASE(m, m.heap[w].target), w)

\* ID2D1Factory::CreateHwndRenderTarget(..., &wnd->target)
CreateHwndRenderTarget(m, w, hr) ==
    IF hr = "S_OK"
    THEN Ev([Created(m, "hwndRT") EXCEPT !.heap[w].target = "hwndRT"],
            <<"CreateHwndRenderTarget", hr>>)
    ELSE Ev(m, <<"CreateHwndRenderTarget", hr>>)

\* the machine after createWindow, and the pointer it returns
createWindow(m, hr) ==
    LET m0 == New(m, "Window", [target |-> NULL])
        m1 == CreateHwndRenderTarget(m0, "Window", hr)
    IN  IF hr # "S_OK"
        THEN [m |-> destroyWindow(m1, "Window"), ret |-> NULL]
        ELSE [m |-> m1, ret |-> "Window"]

CreateWindow ==
    /\ wnd = NULL
    /\ \E hr \in HRESULTS :
          LET r == createWindow(M, hr)
          IN  /\ wnd' = r.ret
              /\ Machine(r.m)
              /\ call' = [op |-> "createWindow", arg |-> hr, ret |-> r.ret]
    /\ wndPixels' = Blank
    /\ wndSession' = FALSE
    /\ e2e' = NoScenario
    /\ UNCHANGED << obj, text, objSession, objPixels, layoutBox, colorVars >>

DestroyWindow ==
    /\ wnd # NULL
    /\ obj = NULL
    /\ ~ wndSession
    /\ Machine(destroyWindow(M, wnd))
    /\ wnd' = NULL
    /\ call' = [op |-> "destroyWindow", arg |-> "-", ret |-> "void"]
    /\ e2e' = NoScenario
    /\ UNCHANGED << obj, text, wndSession, objSession, wndPixels, objPixels,
                    layoutBox, colorVars >>

\* a plausible slip: the older beginFrame (render/context.cc), which only
\* opens the session
beginFrame_noclear(px) == px

\* the surface after BeginDraw(); Clear(colorToD2D(0xFFFFFFFF))
beginFrame(px) == Clear(px, D2DColor[WHITE])

BeginFrame ==
    /\ wnd # NULL
    /\ ~ wndSession
    /\ wndSession' = TRUE
    /\ wndPixels' = beginFrame(wndPixels)
    /\ log' = << <<"BeginDraw", "hwndRT">>, <<"Clear", "hwndRT">> >>
    /\ call' = [op |-> "beginFrame", arg |-> "-", ret |-> "void"]
    /\ e2e' = Follows(3, 4)
    /\ UNCHANGED << wnd, obj, text, refs, orphans, heap, objSession, objPixels,
                    layoutBox, colorVars >>

\* EndDraw() == S_OK
EndDrawOk(hr) == IF hr = "S_OK" THEN "true" ELSE "false"

EndFrame ==
    /\ wnd # NULL
    /\ wndSession
    /\ wndSession' = FALSE
    /\ \E hr \in HRESULTS :
          /\ log' = << <<"EndDraw", hr>> >>
          /\ call' = [op |-> "endFrame", arg |-> hr, ret |-> EndDrawOk(hr)]
          /\ e2e' = IF EndDrawOk(hr) = "true" THEN Follows(5, 6) ELSE NoScenario
    /\ UNCHANGED << wnd, obj, text, refs, orphans, heap, objSession, wndPixels,
                    objPixels, layoutBox, colorVars >>

\* the machine after drawObject: GetBitmap hands out a counted reference,
\* and the function returns without releasing it
drawObject(m) ==
    Ev(Ev(Created(m, "bitmap"), <<"GetBitmap", "bitmap">>),
       <<"DrawBitmap", "bitmap">>)

DrawObject ==
    /\ wnd # NULL /\ wndSession
    /\ obj # NULL /\ heap[obj].target # NULL /\ ~ objSession
    /\ refs["bitmap"] + orphans < MaxRefs
    /\ \E pos \in DestRects :
          /\ wndPixels' = DrawBitmap(wndPixels, objPixels, rectToD2D(pos))
          /\ call' = [op |-> "drawObject", arg |-> pos, ret |-> "void"]
          /\ e2e' = [Follows(4, 5) EXCEPT !.dest = pos]
    /\ Machine(drawObject(M))
    /\ UNCHANGED << wnd, obj, text, wndSession, objSession, objPixels,
                    layoutBox, colorVars >>

---------------------------------------------------------------------------
(* Object (ui/render/object.cc)                                            *)

\* ID2D1RenderTarget::CreateCompatibleRenderTarget(..., &obj->target): the
\* new render target holds a reference on its bitmap
CreateCompatibleRenderTarget(m, o, hr) ==
    IF hr = "S_OK"
    THEN Ev([Created(Created(m, "bitmapRT"), "bitmap")
                EXCEPT !.heap[o].target = "bitmapRT"],
            <<"CreateCompatibleRenderTarget", hr>>)
    ELSE Ev(m, <<"CreateCompatibleRenderTarget", hr>>)

\* the machine after createObject, and the pointer it returns: the HRESULT
\* is not looked at
createObject(m, size, hr) ==
    LET m0 == New(m, "Object", [target |-> NULL, size |-> sizeToD2D(size)])
        m1 == CreateCompatibleRenderTarget(m0, "Object", hr)
    IN  [m |-> m1, ret |-> "Object"]

destroyObject(m, o) == Delete(RELEASE(m, m.heap[o].target), o)

CreateObject ==
    /\ wnd # NULL
    /\ obj = NULL
    /\ \E size \in ObjSizes, hr \in HRESULTS :
          LET r == createObject(M, size, hr)
          IN  /\ obj' = r.ret
              /\ Machine(r.m)
              /\ call' = [op |-> "createObject", arg |-> hr, ret |-> r.ret]
    /\ objPixels' = Blank
    /\ objSession' = FALSE
    /\ e2e' = NoScenario
    /\ UNCHANGED << wnd, text, wndSession, wndPixels, layoutBox, colorVars >>

DestroyObject ==
    /\ obj # NULL
    /\ ~ objSession
    /\ Machine(destroyObject(M, obj))
    /\ obj' = NULL
    /\ call' = [op |-> "destroyObject", arg |-> "-", ret |-> "void"]
    /\ e2e' = NoScenario
    /\ UNCHANGED << wnd, text, wndSession, objSession, wndPixels, objPixels,
                    layoutBox, colorVars >>

\* obj->target->... on an Object whose target is NULL is a null dereference:
\* the calls below are modelled only for an Object that has its target
HasTarget == obj # NULL /\ heap[obj].target # NULL

BeginDraw ==
    /\ HasTarget
    /\ ~ objSession
    /\ objSession' = TRUE
    /\ log' = << <<"BeginDraw", "bitmapRT">> >>
    /\ call' = [op |-> "beginDraw", arg |-> "-", ret |-> "void"]
    /\ e2e' = [NoScenario EXCEPT !.stage = 1]
    /\ UNCHANGED << wnd, obj, text, refs, orphans, heap, wndSession, wndPixels,
                    objPixels, layoutBox, colorVars >>

EndDraw ==
    /\ HasTarget
    /\ objSession
    /\ objSession' = FALSE
    /\ \E hr \in HRESULTS :
          /\ log' = << <<"EndDraw", hr>> >>
          /\ call' = [op |-> "endDraw", arg |-> hr, ret |-> EndDrawOk(hr)]
          /\ e2e' = IF EndDrawOk(hr) = "true" THEN Follows(2, 3) ELSE NoScenario
    /\ UNCHANGED << wnd, obj, text, refs, orphans, heap, wndSession, wndPixels,
                    objPixels, layoutBox, colorVars >>

\* What CreateSolidColorBrush can leave in createFillBrush's local `brush`,
\* which is declared without an initialiser: the new brush; NULL, when the
\* failing call clears its out-parameter; or the local's indeterminate
\* value, when the failing call leaves its out-parameter alone.
UNINIT == "UNINIT"

BrushOutcomes ==
    {[hr |-> "S_OK", out |-> "brush"],
     [hr |-> "E_FAIL", out |-> NULL],
     [hr |-> "E_FAIL", out |-> UNINIT]}

\* the machine after createFillBrush, and the brush it returns: the HRESULT
\* is not looked at
createFillBrush(m, c, outcome) ==
    LET brush_color == D2DColor[c]
        m1 == IF outcome.hr = "S_OK" THEN Created(m, "brush") ELSE m
    IN  [m |-> Ev(m1, <<"CreateSolidColorBrush", outcome.hr>>),
         brush |-> [ptr |-> outcome.out, color |-> brush_color]]

\* a primitive draw: the brush, the one backend draw with it, RELEASE
drawRect(m, px, rect, c, outcome) ==
    LET b == createFillBrush(m, c, outcome)
    IN  [m  |-> RELEASE(Ev(b.m, <<"DrawRectangle", b.brush.ptr>>), b.brush.ptr),
         px |-> DrawRectangle(px, rectToD2D(rect), b.brush)]

drawRRect(m, px, rrect, c, outcome) ==
    LET b == createFillBrush(m, c, outcome)
    IN  [m  |-> RELEASE(Ev(b.m, <<"DrawRoundedRectangle", b.brush.ptr>>),
                        b.brush.ptr),
         px |-> DrawRoundedRectangle(px, rrectToD2D(rrect), b.brush)]

drawOval(m, px, oval, c, outcome) ==
    LET b == createFillBrush(m, c, outcome)
    IN  [m  |-> RELEASE(Ev(b.m, <<"DrawEllipse", b.brush.ptr>>), b.brush.ptr),
         px |-> DrawEllipse(px, ovalToD2D(oval), b.brush)]

drawText(m, px, t, offset, outcome) ==
    LET b == createFillBrush(m, BLACK, outcome)
    IN  [m  |-> RELEASE(Ev(b.m, <<"DrawTextLayout", b.brush.ptr>>), b.brush.ptr),
         px |-> DrawTextLayout(px, offsetToD2D(offset), m.heap[t].chars_len,
                               b.brush)]

\* the part of a primitive draw's effect that all four share
Drawn(r, op, outcome) ==
    /\ objPixels' = r.px
    /\ Machine(r.m)
    /\ call' = [op |-> op, arg |-> outcome.hr, ret |-> "void"]
    /\ UNCHANGED << wnd, obj, text, wndSession, objSession, wndPixels,
                    layoutBox, colorVars >>

DrawRect ==
    /\ HasTarget /\ objSession
    /\ \E rect \in Rects, c \in Colors, outcome \in BrushOutcomes :
          /\ Drawn(drawRect(M, objPixels, rect, c, outcome), "drawRect", outcome)
          /\ e2e' = IF rect = FullRect /\ outcome.hr = "S_OK"
                    THEN [Follows(1, 2) EXCEPT !.color = c]
                    ELSE NoScenario

DrawRRect ==
    /\ HasTarget /\ objSession
    /\ \E rrect \in RRects, c \in Colors, outcome \in BrushOutcomes :
          Drawn(drawRRect(M, objPixels, rrect, c, outcome), "drawRRect", outcome)
    /\ e2e' = NoScenario

DrawOval ==
    /\ HasTarget /\ objSession
    /\ \E oval \in Ovals, c \in Colors, outcome \in BrushOutcomes :
          Drawn(drawOval(M, objPixels, oval, c, outcome), "drawOval", outcome)
    /\ e2e' = NoScenario

DrawText ==
    /\ HasTarget /\ objSession
    /\ text # NULL
    /\ \E offset \in Offsets, outcome \in BrushOutcomes :
          Drawn(drawText(M, objPixels, text, offset, outcome), "drawText",
                outcome)
    /\ e2e' = NoScenario

---------------------------------------------------------------------------
(* Text (render/text.cc)                                                   *)

NoBox == [width |-> 0, height |-> 0]

\* MultiByteToWideChar(CP_UTF8, ...) on well-formed input: the UTF-16 code
\* units written, one per code point and two for a 4-byte sequence
RECURSIVE MultiByteToWideChar(_)
MultiByteToWideChar(bytes) ==
    IF bytes = << >> THEN 0
    ELSE (CASE bytes[1] < 128 -> 1
            [] bytes[1] < 192 -> 0
            [] bytes[1] < 240 -> 1
            [] OTHER          -> 2) + MultiByteToWideChar(Tail(bytes))

\* IDWriteFactory::CreateTextFormat(..., &text->format)
CreateTextFormat(m, t, hr) ==
    IF hr = "S_OK"
    THEN Ev([Created(m, "format") EXCEPT !.heap[t].format = "format"],
            <<"CreateTextFormat", hr>>)
    ELSE Ev(m, <<"CreateTextFormat", hr>>)

\* IDWriteFactory::CreateTextLayout(..., &text->layout)
CreateTextLayout(m, t, hr) ==
    IF hr = "S_OK"
    THEN Ev([Created(m, "layout") EXCEPT !.heap[t].layout = "layout"],
            <<"CreateTextLayout", hr>>)
    ELSE Ev(m, <<"CreateTextLayout", hr>>)

\* a plausible slip: the format released before the layout built from it
destroyRenderText_formatFirst(m, t) ==
    LET m1 == RELEASE(m, m.heap[t].format)
        m2 == RELEASE(m1, m.heap[t].layout)
        m3 == Delete(m2, m.heap[t].chars)
    IN  Delete(m3, t)

destroyRenderText(m, t) ==
    LET m1 == RELEASE(m, m.heap[t].layout)
        m2 == RELEASE(m1, m.heap[t].format)
        m3 == Delete(m2, m.heap[t].chars)
    IN  Delete(m3, t)

\* the machine after createRenderText, and the pointer it returns
createRenderText(m, max_size, chars, hrFormat, hrLayout) ==
    LET t  == "RenderText"
        m0 == New(m, t, [chars |-> NULL, chars_len |-> 0,
                         format |-> NULL, layout |-> NULL])
        m1 == [New(m0, "chars", [len |-> Len(chars)])
                  EXCEPT !.heap[t].chars = "chars"]
        m2 == [m1 EXCEPT !.heap[t].chars_len = MultiByteToWideChar(chars)]
        m3 == CreateTextFormat(m2, t, hrFormat)
        m4 == CreateTextLayout(m3, t, hrLayout)
    IN  IF hrFormat # "S_OK"
        THEN [m |-> destroyRenderText(m3, t), ret |-> NULL]
        ELSE IF hrLayout # "S_OK"
        THEN [m |-> destroyRenderText(m4, t), ret |-> NULL]
        ELSE [m |-> m4, ret |-> t]

CreateRenderText ==
    /\ text = NULL
    /\ \E max_size \in BoxSizes, chars \in Strings,
          hrFormat \in HRESULTS, hrLayout \in HRESULTS :
          LET r == createRenderText(M, max_size, chars, hrFormat, hrLayout)
          IN  /\ text' = r.ret
              /\ refs' = r.m.refs
              /\ orphans' = r.m.orphans
              /\ heap' = r.m.heap
              /\ log' = r.m.log
              /\ layoutBox' = IF r.ret # NULL THEN max_size ELSE NoBox
              /\ call' = [op |-> "createRenderText",
                          arg |-> [hrFormat |-> hrFormat, hrLayout |-> hrLayout],
                          ret |-> r.ret]
    /\ UNCHANGED << wnd, obj, wndSession, objSession, wndPixels, objPixels,
                    e2e, colorVars >>

DestroyRenderText ==
    /\ text # NULL
    /\ LET m1 == destroyRenderText(M, text)
       IN  /\ refs' = m1.refs
           /\ orphans' = m1.orphans
           /\ heap' = m1.heap
           /\ log' = m1.log
    /\ text' = NULL
    /\ layoutBox' = NoBox
    /\ call' = [op |-> "destroyRenderText", arg |-> "-", ret |-> "void"]
    /\ UNCHANGED << wnd, obj, wndSession, objSession, wndPixels, objPixels,
                    e2e, colorVars >>

\* a plausible slip: & for &&, so the height is set whatever the width did
resizeText_eager(box, size, hrW, hrH) ==
    [box |-> [width  |-> IF hrW = "S_OK" THEN size.width ELSE box.width,
              height |-> IF hrH = "S_OK" THEN size.height ELSE box.height],
     log |-> << <<"SetMaxWidth", hrW>>, <<"SetMaxHeight", hrH>> >>,
     ret |-> IF hrW = "S_OK" /\ hrH = "S_OK" THEN "true" ELSE "false"]

\* SetMaxWidth(size.width) == S_OK && SetMaxHeight(size.height) == S_OK:
\* the layout's box, the backend calls made and the result.  A setter that
\* fails leaves its dimension as it was.
resizeText(box, size, hrW, hrH) ==
    LET w == IF hrW = "S_OK" THEN [box EXCEPT !.width = size.width] ELSE box
        h == IF hrH = "S_OK" THEN [w EXCEPT !.height = size.height] ELSE w
    IN  IF hrW # "S_OK"
        THEN [box |-> w, log |-> << <<"SetMaxWidth", hrW>> >>, ret |-> "false"]
        ELSE [box |-> h,
              log |-> << <<"SetMaxWidth", hrW>>, <<"SetMaxHeight", hrH>> >>,
              ret |-> IF hrH = "S_OK" THEN "true" ELSE "false"]

ResizeText ==
    /\ text # NULL
    /\ \E size \in BoxSizes, hrW \in HRESULTS, hrH \in HRESULTS :
          LET r == resizeText(layoutBox, size, hrW, hrH)
          IN  /\ layoutBox' = r.box
              /\ log' = r.log
              /\ call' = [op |-> "resizeText",
                          arg |-> [size |-> size, old |-> layoutBox],
                          ret |-> r.ret]
    /\ UNCHANGED << wnd, obj, text, refs, orphans, heap, wndSession,
                    objSession, wndPixels, objPixels, e2e, colorVars >>

---------------------------------------------------------------------------
(* The colour conversion, applied to sample inputs.                        *)

ByteSamples == {0, 1, 128, 165, 255}

SampleColors ==
    {U32(b3, b2, b1, b0) : b3 \in ByteSamples, b2 \in ByteSamples,
                           b1 \in ByteSamples, b0 \in ByteSamples}

NoConv == [done |-> FALSE, static |-> Transparent, macro |-> Transparent]

ColorConvert ==
    /\ ~ conv.done
    /\ conv' = [done |-> TRUE, static |-> colorToD2D(color),
                macro |-> colorToD2DMacro(color)]
    /\ UNCHANGED << color, surfaceVars >>

---------------------------------------------------------------------------
(* Specifications                                                          *)

InitSurfaces ==
    /\ wnd = NULL /\ obj = NULL /\ text = NULL
    /\ refs = NoRefs
    /\ orphans = 0
    /\ heap = << >>
    /\ wndSession = FALSE /\ objSession = FALSE
    /\ wndPixels = Blank /\ objPixels = Blank
    /\ e2e = NoScenario
    /\ layoutBox = NoBox
    /\ call = [op |-> "none", arg |-> "-", ret |-> "void"]
    /\ log = << >>

\* the surfaces are exercised with a Text that was created beforehand:
\* createRenderText(ctx, {3, 2}, "Hi", ...) with the backend healthy
NoMachine == [refs |-> NoRefs, orphans |-> 0, heap |-> << >>, log |-> << >>]

TextBefore ==
    createRenderText(NoMachine, [width |-> 3, height |-> 2], <<72, 105>>,
                     "S_OK", "S_OK")

Init ==
    /\ wnd = NULL /\ obj = NULL
    /\ text = TextBefore.ret
    /\ refs = TextBefore.m.refs
    /\ orphans = TextBefore.m.orphans
    /\ heap = TextBefore.m.heap
    /\ log = TextBefore.m.log
    /\ wndSession = FALSE /\ objSession = FALSE
    /\ wndPixels = Blank /\ objPixels = Blank
    /\ e2e = NoScenario
    /\ layoutBox = [width |-> 3, height |-> 2]
    /\ call = [op |-> "createRenderText",
               arg |-> [hrFormat |-> "S_OK", hrLayout |-> "S_OK"],
               ret |-> TextBefore.ret]
    /\ color = Word(WHITE) /\ conv = NoConv

Next ==
    \/ CreateWindow \/ DestroyWindow \/ BeginFrame \/ EndFrame \/ DrawObject
    \/ CreateObject \/ DestroyObject \/ BeginDraw \/ EndDraw
    \/ DrawRect \/ DrawRRect \/ DrawOval \/ DrawText

Spec == Init /\ [][Next]_vars

InitText == InitSurfaces /\ color = Word(WHITE) /\ conv = NoConv

NextText == CreateRenderText \/ DestroyRenderText \/ ResizeText

SpecText == InitText /\ [][NextText]_vars

InitColor == InitSurfaces /\ color \in SampleColors /\ conv = NoConv

NextColor == ColorConvert

SpecColor == InitColor /\ [][NextColor]_vars

---------------------------------------------------------------------------
(* Properties                                                              *)

InLog(e) == \E i \in DOMAIN log : log[i] = e

Attempted(what) == \E i \in DOMAIN log : log[i][1] = what

\* every Release of the last call went through a pointer to a resource
ReleasesOnlyResources ==
    \A i \in DOMAIN log : log[i][1] = "Release" => log[i][2] \in Resources

White == [r |-> 255, g |-> 255, b |-> 255, a |-> 255]

DrawOps == {"drawRect", "drawRRect", "drawOval", "drawText"}

\* C1: when CreateHwndRenderTarget does not return S_OK, createWindow
\* returns null; the Window record it allocated is freed exactly once, a
\* render target is released as often as one was stored, and nothing the
\* call created is still live.
C1_FailedCreateWindowReleasesAll ==
    (call.op = "createWindow" /\ call.arg # "S_OK") =>
        /\ call.ret = NULL
        /\ wnd = NULL
        /\ Count(log, <<"new", "Window">>) = 1
        /\ Count(log, <<"delete", "Window">>) = 1
        /\ Count(log, <<"Release", "hwndRT">>)
              = Count(log, <<"CreateHwndRenderTarget", "S_OK">>)
        /\ ReleasesOnlyResources
        /\ "Window" \notin DOMAIN heap
        /\ refs["hwndRT"] = 0

C1_Witness ==
    /\ call.op = "createWindow"
    /\ InLog(<<"CreateHwndRenderTarget", "E_FAIL">>)
    /\ InLog(<<"delete", "Window">>)
    /\ call.ret = NULL

\* C2: createObject returns null, with nothing left allocated, whenever
\* CreateCompatibleRenderTarget fails; a non-null Object handle always owns
\* a render target.
C2_NonNullObjectOwnsTarget ==
    /\ (call.op = "createObject" /\ call.arg # "S_OK") =>
          /\ call.ret = NULL
          /\ "Object" \notin DOMAIN heap
    /\ obj # NULL => heap[obj].target # NULL

\* C3: when createText fails at the text format or at the text layout it
\* returns null, having released the character buffer, the format (if one
\* was created) and the Text record exactly once each and nothing that was
\* never created; when it succeeds the Text owns buffer, format and layout,
\* and destroyText releases each of the three exactly once.
C3_CreateTextReleasesPartial ==
    /\ (/\ call.op = "createRenderText"
        /\ (call.arg.hrFormat # "S_OK" \/ call.arg.hrLayout # "S_OK")) =>
          /\ call.ret = NULL
          /\ text = NULL
          /\ Count(log, <<"delete", "chars">>) = 1
          /\ Count(log, <<"delete", "RenderText">>) = 1
          /\ Count(log, <<"Release", "format">>)
                = Count(log, <<"CreateTextFormat", "S_OK">>)
          /\ Count(log, <<"Release", "layout">>)
                = Count(log, <<"CreateTextLayout", "S_OK">>)
          /\ ReleasesOnlyResources
          /\ DOMAIN heap = {}
          /\ refs["format"] = 0 /\ refs["layout"] = 0
    /\ (/\ call.op = "createRenderText"
        /\ call.arg.hrFormat = "S_OK" /\ call.arg.hrLayout = "S_OK") =>
          /\ call.ret # NULL
          /\ text = call.ret
          /\ heap[text].chars \in DOMAIN heap
          /\ heap[text].format = "format" /\ refs["format"] = 1
          /\ heap[text].layout = "layout" /\ refs["layout"] = 1
          /\ ~ Attempted("Release") /\ ~ Attempted("delete")
    /\ call.op = "destroyRenderText" =>
          /\ Count(log, <<"Release", "format">>) = 1
          /\ Count(log, <<"Release", "layout">>) = 1
          /\ Count(log, <<"delete", "chars">>) = 1
          /\ Count(log, <<"delete", "RenderText">>) = 1
          /\ ReleasesOnlyResources
          /\ DOMAIN heap = {}
          /\ refs["format"] = 0 /\ refs["layout"] = 0

C3_Witness ==
    /\ call.op = "createRenderText"
    /\ call.arg.hrFormat = "S_OK" /\ call.arg.hrLayout = "E_FAIL"
    /\ call.ret = NULL
    /\ InLog(<<"Release", "format">>)

\* C4: every primitive draw creates its brush inside the call and releases
\* it before returning; no brush is live after a draw; and when brush
\* creation fails, Release is never invoked on a brush that was not created.
C4_BrushScopedToCall ==
    /\ refs["brush"] = 0
    /\ call.op \in DrawOps =>
          /\ log[1][1] = "CreateSolidColorBrush"
          /\ Count(log, <<"Release", "brush">>)
                = Count(log, <<"CreateSolidColorBrush", "S_OK">>)
          /\ \A i \in DOMAIN log :
                log[i][1] = "Release" =>
                    /\ log[i][2] = "brush"
                    /\ InLog(<<"CreateSolidColorBrush", "S_OK">>)

\* C5: after beginDraw, drawRect of the full bounds with a colour, endDraw,
\* then beginFrame, drawObject into a destination, endFrame, with the
\* backend healthy, both ends return true and every pixel of the
\* destination holds the normalized colour: drawRect fills the shape.
C5_EndToEndFilled ==
    /\ (call.op \in {"endDraw", "endFrame"} /\ call.arg = "S_OK") =>
          call.ret = "true"
    /\ e2e.stage = 6 =>
          \A p \in Pixels :
              InBox(p, rectToD2D(e2e.dest)) =>
                  wndPixels[p] = colorToD2D(Word(e2e.color))

\* C6: immediately after beginFrame the window's draw session is open and
\* the whole surface is opaque white (r = g = b = a = 1): nothing of an
\* earlier frame remains.
C6_BeginFrameClearsToWhite ==
    call.op = "beginFrame" =>
        /\ wndSession
        /\ \A p \in Pixels : wndPixels[p] = White

\* an earlier frame composited the object, which has content
C6_Witness ==
    /\ call.op = "beginFrame"
    /\ obj # NULL
    /\ refs["bitmap"] >= 2
    /\ objPixels # Blank

\* C7: resizeText returns true exactly when both the width and the height
\* update succeed; a width that was set is not restored when the height
\* fails; and when the width update fails the height update is not
\* attempted and the height keeps its old value.
C7_ResizeTextPartial ==
    call.op = "resizeText" =>
        LET wOk == InLog(<<"SetMaxWidth", "S_OK">>)
            hOk == InLog(<<"SetMaxHeight", "S_OK">>)
        IN  /\ Attempted("SetMaxWidth")
            /\ (call.ret = "true") <=> (wOk /\ hOk)
            /\ ~ wOk => /\ ~ Attempted("SetMaxHeight")
                        /\ layoutBox.height = call.arg.old.height
            /\ (wOk /\ ~ hOk) =>
                  /\ Attempted("SetMaxHeight")
                  /\ layoutBox.width = call.arg.size.width
                  /\ layoutBox.height = call.arg.old.height
            /\ (wOk /\ hOk) => layoutBox = call.arg.size

\* the width succeeded, the height failed: new width, old height
C7_Witness ==
    /\ call.op = "resizeText"
    /\ call.ret = "false"
    /\ call.arg.size.width # call.arg.old.width
    /\ call.arg.size.height # call.arg.old.height
    /\ layoutBox.width = call.arg.size.width
    /\ layoutBox.height = call.arg.old.height

\* each of the Text's resources is let go exactly once
DestroyedOnce ==
    /\ Count(log, <<"Release", "format">>) = 1
    /\ Count(log, <<"Release", "layout">>) = 1
    /\ Count(log, <<"delete", "chars">>) = 1
    /\ Count(log, <<"delete", "RenderText">>) = 1

\* C8 as stated: destroying a Text releases the text format, then the text
\* layout, then the character buffer, each exactly once, and frees the Text
\* record last.
C8_FormatLayoutBuffer ==
    call.op = "destroyRenderText" =>
        /\ DestroyedOnce
        /\ Index(log, <<"Release", "format">>)
              < Index(log, <<"Release", "layout">>)
        /\ Index(log, <<"Release", "layout">>)
              < Index(log, <<"delete", "chars">>)
        /\ Index(log, <<"delete", "chars">>)
              < Index(log, <<"delete", "RenderText">>)

\* C8 as amended: destroying a Text releases the text layout, then the text
\* format, then the character buffer, each exactly once, and frees the Text
\* record last.
C8_LayoutFormatBuffer ==
    call.op = "destroyRenderText" =>
        /\ DestroyedOnce
        /\ Index(log, <<"Release", "layout">>)
              < Index(log, <<"Release", "format">>)
        /\ Index(log, <<"Release", "format">>)
              < Index(log, <<"delete", "chars">>)
        /\ Index(log, <<"delete", "chars">>)
              < Index(log, <<"delete", "RenderText">>)
        /\ Len(log) = 4

C8_Witness ==
    /\ call.op = "destroyRenderText"
    /\ text = NULL
    /\ InLog(<<"Release", "layout">>)

\* (c >> k) & 0xFF, as a number
Channel(c, k) == ToFloat(BitAnd(Shr(c, k), Lit(255)))

\* C9: colorToD2D(c) is r = ((c >> 24) & 0xFF)/255, g = ((c >> 16) &
\* 0xFF)/255, b = ((c >> 8) & 0xFF)/255, a = (c & 0xFF)/255; every channel
\* lies in [0,1]; the static-mask and the macro implementation agree; 0xFF
\* is opaque black and 0xFFFFFFFF opaque white.
C9_ColorChannels ==
    conv.done =>
        /\ conv.static = [r |-> Channel(color, 24), g |-> Channel(color, 16),
                          b |-> Channel(color, 8), a |-> Channel(color, 0)]
        /\ conv.macro = conv.static
        /\ \A ch \in {conv.static.r, conv.static.g, conv.static.b,
                      conv.static.a} : 0 <= ch /\ ch <= 255
        /\ color = Lit(255) =>
              conv.static = [r |-> 0, g |-> 0, b |-> 0, a |-> 255]
        /\ color = Word(WHITE) => conv.static = White

\* a colour whose four channels differ has been converted
C9_Witness ==
    /\ conv.done
    /\ color = U32(1, 128, 165, 255)
    /\ conv.static = [r |-> 1, g |-> 128, b |-> 165, a |-> 255]

\* C10: drawObject releases the bitmap reference GetBitmap gave it before
\* it returns, so the bitmap's reference count stays at its value before
\* the first call, and destroyObject followed by destroyWindow leaves no
\* backend resource of theirs live.
C10_DrawObjectHoldsNoReference ==
    /\ call.op = "drawObject" =>
          Count(log, <<"Release", "bitmap">>)
              = Count(log, <<"GetBitmap", "bitmap">>)
    /\ (obj # NULL /\ heap[obj].target # NULL) => refs["bitmap"] = 1
    /\ (wnd = NULL /\ obj = NULL) =>
          /\ \A p \in {"hwndRT", "bitmapRT", "bitmap", "brush"} : refs[p] = 0
          /\ orphans = 0

=============================================================================
